---- MODULE Spec2Model ----
(***************************************************************************)
(* Connect 5 server: the session registry (UserManager), the room          *)
(* aggregate (GameRoom), the game engine (Game, Board) and the connection  *)
(* coordinator (SocketController, room controller).                        *)
(*                                                                         *)
(* Objects are modelled by identity: a room object is a handle into        *)
(* `heap', a user object is its id (an index into `user').  JavaScript's   *)
(* `undefined' is NoUser (0) for a user reference and the empty sequence   *)
(* for an optional object (Nil / Some(x)).                                 *)
(*                                                                         *)
(* A handler is modelled statement by statement as a function on the       *)
(* record of all program variables.  The record carries two control        *)
(* fields: `threw' (an exception is propagating: every later statement of  *)
(* the handler is skipped, what was already assigned stays assigned) and   *)
(* `emitted' (the room events broadcast so far by this handler).           *)
(***************************************************************************)
EXTENDS Integers, Sequences, FiniteSets, TLC

(***************************************************************************)
(* Bounds of the model.                                                    *)
(***************************************************************************)
\* number of user ids (uuidv1 values) ever handed out
MaxUsers == 2
\* number of GameRoom objects ever constructed, the initial room included
MaxRooms == 2
\* number of times the transport of one user disconnects
MaxDisconnects == 1

RoomIds == {"ok", "r"}

(***************************************************************************)
(* Optional values.                                                        *)
(***************************************************************************)
Nil == <<>>
Some(x) == <<x>>
NoUser == 0

\* const v = ...; F(v): the value is computed once and named
Let(v, F(_)) == F(v)

(***************************************************************************)
(* models/game.ts                                                          *)
(***************************************************************************)
Empty == "Empty"
Black == "Black"
White == "White"

WIN_CONSEC_SPOTS == 5

toggleSide(side) == IF side = Black THEN White ELSE Black

Point(x, y) == [x |-> x, y |-> y]

\* an empty slot of a sparse array; reading it gives undefined
Hole == [hole |-> TRUE]

\* Board constructor: size x size spots, all Empty
NewBoard(size) ==
  [size |-> size,
   spots |-> [p \in {Point(x, y) : x \in 0..(size - 1), y \in 0..(size - 1)} |-> Empty]]

\* Board.isValid
isValid(board, point) ==
  /\ 0 <= point.x /\ point.x < board.size
  /\ 0 <= point.y /\ point.y < board.size

\* Board.isFull
BoardIsFull(board) == \A p \in DOMAIN board.spots : board.spots[p] # Empty

\* Game constructor
NewGame(size) ==
  [board |-> NewBoard(size),
   steps |-> <<>>,
   currentSide |-> Black,
   initialSide |-> Black,
   shouldRecalculateWinner |-> TRUE,
   winner |-> Nil]

\* addStep as it would be without the test of the spot: the stone replaces
\* whatever is there
addStepOverwriting(game, point) ==
  IF ~isValid(game.board, point)
    THEN [error |-> "OutOfBounds", game |-> game]
  ELSE [error |-> "none",
        game |-> [game EXCEPT !.board.spots[point] = game.currentSide,
                              !.steps = Append(@, point),
                              !.shouldRecalculateWinner = TRUE,
                              !.currentSide = toggleSide(@)]]

\* addStep as it would be without toggleSide: the side to move never changes
addStepSameSide(game, point) ==
  IF ~isValid(game.board, point)
    THEN [error |-> "OutOfBounds", game |-> game]
  ELSE IF game.board.spots[point] # Empty
    THEN [error |-> "SpotTaken", game |-> game]
  ELSE [error |-> "none",
        game |-> [game EXCEPT !.board.spots[point] = game.currentSide,
                              !.steps = Append(@, point),
                              !.shouldRecalculateWinner = TRUE]]

\* Game.addStep: [error, game]; error is "none", "OutOfBounds" or "SpotTaken"
addStep(game, point) ==
  IF ~isValid(game.board, point)
    THEN [error |-> "OutOfBounds", game |-> game]
  ELSE IF game.board.spots[point] # Empty
    THEN [error |-> "SpotTaken", game |-> game]
  ELSE LET spot == IF game.currentSide = Black THEN Black ELSE White
       IN [error |-> "none",
           game |-> [game EXCEPT !.board.spots[point] = spot,
                                 !.steps = Append(@, point),
                                 !.shouldRecalculateWinner = TRUE,
                                 !.currentSide = toggleSide(@)]]

\* Game.generate(length, generator): new Array(length).map(f) never calls f
\* (map skips the empty slots of a sparse array), so the result is `length'
\* empty slots whatever the generator
generate(length) == [k \in 1..length |-> Hole]

\* Game.getWinDetails: [threw, value]; value is Nil or Some([side, points]).
\* for..of reads an empty slot as undefined, and Board.getSpot(undefined)
\* throws a TypeError in isValid (point.x of undefined)
RECURSIVE scanLine(_, _, _, _, _)
scanLine(board, points, k, prevSpot, consec) ==
  IF k > Len(points) THEN [threw |-> FALSE, value |-> Nil]
  ELSE LET point == points[k] IN
    IF point = Hole THEN [threw |-> TRUE, value |-> Nil]
    ELSE LET spot == board.spots[point] IN
      IF spot = prevSpot /\ spot # Empty
        THEN LET c == Append(consec, point) IN
             IF Len(c) >= WIN_CONSEC_SPOTS
               THEN [threw |-> FALSE,
                     value |-> Some([side |-> IF spot = Black THEN Black ELSE White,
                                     points |-> c])]
               ELSE scanLine(board, points, k + 1, prevSpot, c)
        ELSE scanLine(board, points, k + 1, spot, <<point>>)

getWinDetails(board, points) ==
  IF Len(points) < WIN_CONSEC_SPOTS THEN [threw |-> FALSE, value |-> Nil]
  ELSE scanLine(board, points, 1, Empty, <<>>)

\* the lines pushed by one iteration i of the loop of Game.getWinner
linesAt(boardSize, i) ==
  <<generate(boardSize),       \* j => new Point(i, j)
    generate(boardSize),       \* j => new Point(j, i)
    generate(boardSize - i)>>  \* j => new Point(i + j, j)
  \o (IF i > 0 THEN <<generate(boardSize - i)>> ELSE <<>>)  \* j => new Point(j, i + j)
  \o <<generate(i + 1)>>                                    \* j => new Point(i - j, j)
  \o (IF i > 0 THEN <<generate(boardSize - i)>> ELSE <<>>)
     \* j => new Point(i + j, boardSize - j - 1)

RECURSIVE linesFrom(_, _)
linesFrom(boardSize, i) ==
  IF i >= boardSize THEN <<>> ELSE linesAt(boardSize, i) \o linesFrom(boardSize, i + 1)

\* Game.getWinner: lines.map(getWinDetails).find(win => win !== undefined);
\* map evaluates every line, so one throwing line makes the call throw
getWinner(board) ==
  Let(linesFrom(board.size, 0), LAMBDA lines :
  Let([k \in 1..Len(lines) |-> getWinDetails(board, lines[k])], LAMBDA wins :
  Let({k \in 1..Len(lines) : wins[k].value # Nil}, LAMBDA found :
    IF \E k \in 1..Len(lines) : wins[k].threw THEN [threw |-> TRUE, value |-> Nil]
    ELSE IF found = {} THEN [threw |-> FALSE, value |-> Nil]
    ELSE [threw |-> FALSE,
          value |-> wins[CHOOSE k \in found : \A m \in found : k <= m].value])))

\* get Game.winner: [threw, value, game]; game carries the updated cache
winner(game) ==
  IF game.shouldRecalculateWinner
    THEN Let(getWinner(game.board), LAMBDA w :
           IF w.threw THEN [threw |-> TRUE, value |-> Nil, game |-> game]
           ELSE [threw |-> FALSE, value |-> w.value,
                 game |-> [game EXCEPT !.winner = w.value,
                                       !.shouldRecalculateWinner = FALSE]])
    ELSE [threw |-> FALSE, value |-> game.winner, game |-> game]

\* get Game.isFinished: [threw, value, game]
isFinished(game) ==
  Let(winner(game), LAMBDA w :
    [threw |-> w.threw,
     value |-> ~w.threw /\ (w.value # Nil \/ BoardIsFull(w.game.board)),
     game |-> w.game])

(***************************************************************************)
(* models/game_room_settings.ts, models/game_room.ts                       *)
(***************************************************************************)
Player1 == 1
Player2 == 2
Spectator == 3

Roles == {Player1, Player2, Spectator}

\* gameRoomRoleFrom: the role for 1, 2, 3 and undefined (Nil) for anything else
gameRoomRoleFrom(n) == IF n \in {1, 2, 3} THEN Some(n) ELSE Nil

\* GameRoomSettings constructor
GameRoomSettings(boardSize, allowSpectators, isPublic) ==
  [boardSize |-> boardSize, allowSpectators |-> allowSpectators, isPublic |-> isPublic]

\* new GameRoomSettings(): boardSize = 15, allowSpectators = true, isPublic = true
DefaultSettings == GameRoomSettings(15, TRUE, TRUE)

\* GameRoom constructor
GameRoom(id, settings) ==
  [id |-> id,
   settings |-> settings,
   player1 |-> NoUser,
   player2 |-> NoUser,
   spectators |-> <<>>,
   game |-> Nil,
   gameInProgress |-> FALSE,
   player1Restart |-> FALSE,
   player2Restart |-> FALSE]

\* canResetGame as it would be if an empty seat did not count as agreeing:
\* both restart votes are required
canResetGameBothVotes(room) ==
  /\ room.game # Nil
  /\ ~room.gameInProgress /\ room.player1Restart /\ room.player2Restart

\* get GameRoom.canResetGame
canResetGame(room) ==
  IF room.game = Nil THEN FALSE
  ELSE /\ ~room.gameInProgress
       /\ (room.player1Restart \/ room.player1 = NoUser)
       /\ (room.player2Restart \/ room.player2 = NoUser)

\* GameRoom.resetGame
resetGame(room) ==
  [room EXCEPT !.player1Restart = FALSE, !.player2Restart = FALSE, !.game = Nil]

\* get GameRoom.isEmpty
isEmpty(room) ==
  room.player1 = NoUser /\ room.player2 = NoUser /\ Len(room.spectators) = 0

\* get GameRoom.canStartGame
canStartGame(room) == room.player1 # NoUser /\ room.player2 # NoUser

\* startGame as it would be if it did not create the Game object
startGameWithoutGame(room) == [room EXCEPT !.gameInProgress = TRUE]

\* GameRoom.startGame
startGame(room) ==
  [room EXCEPT !.game = Some(NewGame(room.settings.boardSize)), !.gameInProgress = TRUE]

\* endGame as it would be if it also dropped the Game object
endGameDiscarding(room) == [room EXCEPT !.gameInProgress = FALSE, !.game = Nil]

\* GameRoom.endGame
endGame(room) == [room EXCEPT !.gameInProgress = FALSE]

\* onUserJoin as it would be without the tests of gameInProgress: a player
\* seat is given whenever it is empty
onUserJoinDuringGame(room, role, u) ==
  IF role = Player1 /\ room.player1 = NoUser
    THEN [ok |-> TRUE, room |-> [room EXCEPT !.player1 = u]]
  ELSE IF role = Player2 /\ room.player2 = NoUser
    THEN [ok |-> TRUE, room |-> [room EXCEPT !.player2 = u]]
  ELSE IF role = Spectator /\ room.settings.allowSpectators
    THEN [ok |-> TRUE, room |-> [room EXCEPT !.spectators = Append(@, u)]]
  ELSE [ok |-> FALSE, room |-> room]

\* GameRoom.onUserJoin: [ok, room]
onUserJoin(room, role, u) ==
  IF role = Player1 /\ room.player1 = NoUser /\ ~room.gameInProgress
    THEN [ok |-> TRUE, room |-> [room EXCEPT !.player1 = u]]
  ELSE IF role = Player2 /\ room.player2 = NoUser /\ ~room.gameInProgress
    THEN [ok |-> TRUE, room |-> [room EXCEPT !.player2 = u]]
  ELSE IF role = Spectator /\ room.settings.allowSpectators
    THEN [ok |-> TRUE, room |-> [room EXCEPT !.spectators = Append(@, u)]]
  ELSE [ok |-> FALSE, room |-> room]

\* Array.indexOf, 1-based; 0 when absent
indexOf(seq, x) ==
  IF \E k \in 1..Len(seq) : seq[k] = x
    THEN CHOOSE k \in 1..Len(seq) : seq[k] = x /\ \A m \in 1..(k - 1) : seq[m] # x
    ELSE 0

\* Array.splice(index, 1), 1-based
removeAt(seq, k) == SubSeq(seq, 1, k - 1) \o SubSeq(seq, k + 1, Len(seq))

\* GameRoom.onUserLeave
onUserLeave(room, role, u) ==
  IF role = Player1
    THEN [room EXCEPT !.player1 = NoUser, !.player1Restart = FALSE]
  ELSE IF role = Player2
    THEN [room EXCEPT !.player2 = NoUser, !.player2Restart = FALSE]
  ELSE LET index == indexOf(room.spectators, u) IN
       IF index # 0 THEN [room EXCEPT !.spectators = removeAt(@, index)] ELSE room

\* GameRoom.toJson: [threw, room]; Game.toJson reads the winner getter, which
\* may throw and may fill the winner cache
roomToJson(room) ==
  IF room.game = Nil THEN [threw |-> FALSE, room |-> room]
  ELSE Let(winner(room.game[1]), LAMBDA w :
         [threw |-> w.threw, room |-> [room EXCEPT !.game = Some(w.game)]])

(***************************************************************************)
(* Program state.                                                          *)
(*   heap                room objects, by handle (order of construction)   *)
(*   rooms               RoomManager.rooms: handles of the rooms listed    *)
(*   user                user objects, by id: [isConnected]                *)
(*   sock                the latest socket of each user: [open, listeners] *)
(*   pendingUsers        UserManager.pendingUsers: [user, room, role]      *)
(*   disconnectedUsers   UserManager.disconnectedUsers                     *)
(*   timers              the setTimeout callbacks not yet run, in the      *)
(*                       order they were scheduled, with the variables     *)
(*                       they close over                                   *)
(* Observation of the run (no handler reads these):                        *)
(*   disconnects         transport disconnects of each user so far         *)
(*   promoted            registry entries taken by a connection            *)
(*   left                times onUserLeave ran for each user (at most 2    *)
(*                       are counted)                                      *)
(*   leaveSent           the users whose leave-game command was handled    *)
(*   announced           the users whose user-left event was broadcast     *)
(*   registered          the room and role each user registered with       *)
(*   emitted, sent       room events broadcast / messages sent to the      *)
(*                       acting socket by the last step                    *)
(*   last                the last step: operation, user, outcome           *)
(* A Game object exercised on its own (EngineSpec):                        *)
(*   trial               the object, the last call made on it, the         *)
(*                       arguments and the outcome of the call             *)
(***************************************************************************)
VARIABLES heap, rooms, user, sock, pendingUsers, disconnectedUsers, timers,
          disconnects, promoted, left, leaveSent, announced, registered, emitted,
          sent, last, trial

vars == <<heap, rooms, user, sock, pendingUsers, disconnectedUsers, timers,
          disconnects, promoted, left, leaveSent, announced, registered, emitted,
          sent, last, trial>>

\* no Game object is exercised on its own while the server runs
Idle == [op |-> "none"]

\* the program variables as one record, at the start of a handler
Cur ==
  [heap |-> heap, rooms |-> rooms, user |-> user, sock |-> sock,
   pendingUsers |-> pendingUsers, disconnectedUsers |-> disconnectedUsers,
   timers |-> timers, disconnects |-> disconnects,
   promoted |-> promoted, left |-> left, leaveSent |-> leaveSent,
   registered |-> registered,
   threw |-> FALSE, emitted |-> <<>>, sent |-> <<>>]

\* an uncaught exception: the rest of the handler does not run
throw(s) == [s EXCEPT !.threw = TRUE]

Min(a, b) == IF a < b THEN a ELSE b

(***************************************************************************)
(* helpers/room_manager.ts                                                 *)
(***************************************************************************)
\* RoomManager.findRoomById: the handle of the first listed room with the id, 0 if none
findRoomById(s, roomId) ==
  IF \E k \in 1..Len(s.rooms) : s.heap[s.rooms[k]].id = roomId
    THEN s.rooms[CHOOSE k \in 1..Len(s.rooms) :
                   /\ s.heap[s.rooms[k]].id = roomId
                   /\ \A m \in 1..(k - 1) : s.heap[s.rooms[m]].id # roomId]
    ELSE 0

\* RoomManager.addRoom
addRoom(s, h) == [s EXCEPT !.rooms = Append(@, h)]

\* removeRoom as it would be if it dropped the first room of the directory
\* instead of the room given
removeRoomFirst(s, h) ==
  IF Len(s.rooms) > 0 THEN [s EXCEPT !.rooms = removeAt(@, 1)] ELSE s

\* RoomManager.removeRoom
removeRoom(s, h) ==
  LET index == indexOf(s.rooms, h) IN
  IF index # 0 THEN [s EXCEPT !.rooms = removeAt(@, index)] ELSE s

(***************************************************************************)
(* helpers/user_manager.ts                                                 *)
(***************************************************************************)
PENDING_USER_TIMEOUT == 1000 * 10
DISCONNECTED_USER_TIMEOUT == 1000 * 60

\* Array.findIndex(entry => entry.user.id === userId), 1-based; 0 when absent
findIndex(entries, userId) ==
  IF \E k \in 1..Len(entries) : entries[k].user = userId
    THEN CHOOSE k \in 1..Len(entries) :
           entries[k].user = userId /\ \A m \in 1..(k - 1) : entries[m].user # userId
    ELSE 0

NoEntry == [user |-> NoUser, room |-> 0, role |-> 0]

\* UserManager.getPendingUserAndStatus: [status, user]
getPendingUserAndStatus(s, userId) ==
  LET p == findIndex(s.pendingUsers, userId)
      d == findIndex(s.disconnectedUsers, userId)
  IN IF p # 0 THEN [status |-> "pending", user |-> s.pendingUsers[p]]
     ELSE IF d # 0 THEN [status |-> "disconnected", user |-> s.disconnectedUsers[d]]
     ELSE [status |-> "timeout", user |-> NoEntry]

\* removeFromPending as it would be if it reported the entry without
\* removing it
removeFromPendingKeeping(s, userId) ==
  [removed |-> findIndex(s.pendingUsers, userId) # 0, s |-> s]

\* UserManager.removeFromPending: [removed, s]
removeFromPending(s, userId) ==
  LET index == findIndex(s.pendingUsers, userId) IN
  IF index # 0
    THEN [removed |-> TRUE, s |-> [s EXCEPT !.pendingUsers = removeAt(@, index)]]
    ELSE [removed |-> FALSE, s |-> s]

\* UserManager.removeFromDisconnected: [removed, s]
removeFromDisconnected(s, userId) ==
  LET index == findIndex(s.disconnectedUsers, userId) IN
  IF index # 0
    THEN [removed |-> TRUE, s |-> [s EXCEPT !.disconnectedUsers = removeAt(@, index)]]
    ELSE [removed |-> FALSE, s |-> s]

\* the entry a setTimeout callback of addPendingUser looks for when it runs
pendingTimerRemove(s, userId) == removeFromDisconnected(s, userId)

\* the entry a setTimeout callback of addDisconnectedUser looks for when it runs
disconnectedTimerRemove(s, userId) == removeFromDisconnected(s, userId)

\* a setTimeout callback: its kind, the variables it closes over, the
\* disconnect that scheduled it (epoch; 0 for the join) and its delay
Timer(kind, u, h, role, epoch, delay) ==
  [kind |-> kind, user |-> u, room |-> h, role |-> role, epoch |-> epoch, delay |-> delay]

\* UserManager.addPendingUser
addPendingUser(s, u, h, role) ==
  [s EXCEPT !.pendingUsers = Append(@, [user |-> u, room |-> h, role |-> role]),
            !.timers = Append(@, Timer("pending", u, h, role, 0, PENDING_USER_TIMEOUT)),
            !.registered = Append(@, [room |-> h, role |-> role])]

\* UserManager.addDisconnectedUser
addDisconnectedUser(s, u, h, role) ==
  [s EXCEPT !.disconnectedUsers = Append(@, [user |-> u, room |-> h, role |-> role]),
            !.timers = Append(@, Timer("disconnected", u, h, role, s.disconnects[u],
                                       DISCONNECTED_USER_TIMEOUT))]

(***************************************************************************)
(* controllers/socket_controller.ts                                        *)
(***************************************************************************)
Listeners == {"add-step", "restart-game", "leave-game", "disconnect"}

\* a socket: whether it is open, the events it has handlers for, and the room
\* and role its handlers close over
Socket(h, role) == [open |-> TRUE, listeners |-> {}, room |-> h, role |-> role]

NoSocket == [open |-> FALSE, listeners |-> {}, room |-> 0, role |-> 0]

\* a room event; user and role are NoUser and 0 for the events that carry none
RoomEvent(h, description, u, role) ==
  [room |-> h, description |-> description, user |-> u, role |-> role]

\* SocketController.emitRoom: room.toJson() is evaluated first and may throw
emitRoom(s, h, description, u, role) ==
  IF s.threw THEN s
  ELSE Let(roomToJson(s.heap[h]), LAMBDA j :
         IF j.threw THEN throw(s)
         ELSE [s EXCEPT !.heap[h] = j.room,
                        !.emitted = Append(@, RoomEvent(h, description, u, role))])

\* socket.emit(event) to the acting socket
socketEmit(s, event, error) ==
  IF s.threw THEN s ELSE [s EXCEPT !.sent = Append(@, [event |-> event, error |-> error])]

\* socket.on(event, handler)
socketOn(s, u, event) ==
  IF s.threw THEN s ELSE [s EXCEPT !.sock[u].listeners = @ \cup {event}]

\* Point.fromJson: a point for an object with x and y, undefined otherwise
PointFromJson(json) ==
  IF DOMAIN json = {"x", "y"} THEN Some(Point(json.x, json.y)) ELSE Nil

\* the 'add-step' handler registered by subscribeToSocketEvents
onAddStep(s, u, h, role, param) ==
  IF ~(role # Spectator /\ s.heap[h].gameInProgress /\ s.heap[h].game # Nil) THEN s
  ELSE
    Let(isFinished(s.heap[h].game[1]), LAMBDA f1 :
    IF f1.threw THEN throw(s)
    ELSE
      Let([s EXCEPT !.heap[h].game = Some(f1.game)], LAMBDA s1 :
      Let(PointFromJson(param), LAMBDA point :
      IF f1.value THEN socketEmit(s1, "fail-to-add-step", "")
      ELSE IF point = Nil THEN socketEmit(s1, "fail-to-add-step", "")
      ELSE IF \/ (role = Player1 /\ f1.game.currentSide # Black)
              \/ (role = Player2 /\ f1.game.currentSide # White)
        THEN socketEmit(s1, "fail-to-add-step", "")
      ELSE
        Let(addStep(f1.game, point[1]), LAMBDA r :
        IF r.error # "none" THEN socketEmit(s1, "fail-to-add-step", "")
        ELSE
          Let(isFinished(r.game), LAMBDA f2 :
          IF f2.threw THEN throw([s1 EXCEPT !.heap[h].game = Some(r.game)])
          ELSE
            Let([s1 EXCEPT !.heap[h] =
                   IF f2.value THEN endGame([@ EXCEPT !.game = Some(f2.game)])
                   ELSE [@ EXCEPT !.game = Some(f2.game)]], LAMBDA s2 :
            Let(emitRoom(s2, h, "step-added", NoUser, 0), LAMBDA s3 :
            IF f2.value THEN emitRoom(s3, h, "game-ended", NoUser, 0) ELSE s3)))))))

\* the 'restart-game' handler as it would be if a reset never started the
\* next game
onRestartGameResetOnly(s, u, h, role) ==
  IF role = Spectator \/ s.heap[h].gameInProgress \/ s.heap[h].game = Nil THEN s
  ELSE IF role = Player1 /\ s.heap[h].player1Restart THEN s
  ELSE IF role = Player2 /\ s.heap[h].player2Restart THEN s
  ELSE
    Let(IF role = Player1 THEN [s.heap[h] EXCEPT !.player1Restart = TRUE]
        ELSE [s.heap[h] EXCEPT !.player2Restart = TRUE], LAMBDA voted :
    Let(canResetGame(voted), LAMBDA doReset :
    Let([s EXCEPT !.heap[h] = IF doReset THEN resetGame(voted) ELSE voted], LAMBDA s1 :
    Let(emitRoom(s1, h, "user-set-restart", u, role), LAMBDA s2 :
    IF doReset THEN emitRoom(s2, h, "game-reset", NoUser, 0) ELSE s2))))

\* the 'restart-game' handler as it would be without the tests of the vote
\* already set: a repeated vote is handled like a first one
onRestartGameRevoting(s, u, h, role) ==
  IF role = Spectator \/ s.heap[h].gameInProgress \/ s.heap[h].game = Nil THEN s
  ELSE
    Let(IF role = Player1 THEN [s.heap[h] EXCEPT !.player1Restart = TRUE]
        ELSE [s.heap[h] EXCEPT !.player2Restart = TRUE], LAMBDA voted :
    Let(canResetGame(voted), LAMBDA doReset :
    Let(IF doReset THEN resetGame(voted) ELSE voted, LAMBDA reset :
    Let(doReset /\ canStartGame(reset), LAMBDA doStart :
    Let([s EXCEPT !.heap[h] = IF doStart THEN startGame(reset) ELSE reset], LAMBDA s1 :
    Let(emitRoom(s1, h, "user-set-restart", u, role), LAMBDA s2 :
    IF doStart THEN emitRoom(s2, h, "start-game", NoUser, 0)
    ELSE IF doReset THEN emitRoom(s2, h, "game-reset", NoUser, 0)
    ELSE s2))))))

\* the 'restart-game' handler registered by subscribeToSocketEvents
onRestartGame(s, u, h, role) ==
  IF role = Spectator \/ s.heap[h].gameInProgress \/ s.heap[h].game = Nil THEN s
  ELSE IF role = Player1 /\ s.heap[h].player1Restart THEN s
  ELSE IF role = Player2 /\ s.heap[h].player2Restart THEN s
  ELSE
    Let(IF role = Player1 THEN [s.heap[h] EXCEPT !.player1Restart = TRUE]
        ELSE [s.heap[h] EXCEPT !.player2Restart = TRUE], LAMBDA voted :
    Let(canResetGame(voted), LAMBDA doReset :
    Let(IF doReset THEN resetGame(voted) ELSE voted, LAMBDA reset :
    Let(doReset /\ canStartGame(reset), LAMBDA doStart :
    Let([s EXCEPT !.heap[h] = IF doStart THEN startGame(reset) ELSE reset], LAMBDA s1 :
    Let(emitRoom(s1, h, "user-set-restart", u, role), LAMBDA s2 :
    IF doStart THEN emitRoom(s2, h, "start-game", NoUser, 0)
    ELSE IF doReset THEN emitRoom(s2, h, "game-reset", NoUser, 0)
    ELSE s2))))))

\* handleUserLeft, the closure of subscribeToSocketEvents: the 'leave-game'
\* handler and the callback handed to addDisconnectedUser
handleUserLeft(s, u, h, role) ==
  Let([s EXCEPT !.heap[h] = onUserLeave(@, role, u),
                !.left[u] = Min(@ + 1, 2)], LAMBDA s1 :
  Let(s1.heap[h].gameInProgress /\ role # Spectator, LAMBDA endedGame :
  Let(IF isEmpty(s1.heap[h]) THEN removeRoom(s1, h)
      ELSE
        Let(IF endedGame THEN [s1 EXCEPT !.heap[h] = endGame(@)]
            ELSE IF canResetGame(s1.heap[h])
              THEN emitRoom([s1 EXCEPT !.heap[h] = resetGame(@)],
                            h, "game-reset", NoUser, 0)
            ELSE s1, LAMBDA a :
        Let(emitRoom(a, h, "user-left", u, role), LAMBDA b :
        IF endedGame THEN emitRoom(b, h, "game-ended", NoUser, 0) ELSE b)), LAMBDA s2 :
  IF s2.threw THEN s2
  ELSE [s2 EXCEPT !.sock[u] = NoSocket])))

\* the 'disconnect' handler as it would be if it ended the game of a player
\* (as the handler of the first revision of index.ts did)
onDisconnectEndingGame(s, u, h, role) ==
  Let(s.heap[h].gameInProgress /\ role # Spectator, LAMBDA endedGame :
  Let([s EXCEPT !.user[u].isConnected = FALSE,
                !.heap[h] = IF endedGame THEN endGame(@) ELSE @], LAMBDA s1 :
  Let(emitRoom(s1, h, "user-disconnected", u, role), LAMBDA s2 :
  Let(IF endedGame THEN emitRoom(s2, h, "game-ended", NoUser, 0) ELSE s2, LAMBDA s3 :
  IF s3.threw THEN s3 ELSE addDisconnectedUser(s3, u, h, role)))))

\* the 'disconnect' handler registered by subscribeToSocketEvents
onDisconnect(s, u, h, role) ==
  Let([s EXCEPT !.user[u].isConnected = FALSE], LAMBDA s1 :
  Let(emitRoom(s1, h, "user-disconnected", u, role), LAMBDA s2 :
  IF s2.threw THEN s2 ELSE addDisconnectedUser(s2, u, h, role)))

\* SocketController.subscribeToSocketEvents
subscribeToSocketEvents(s, u, h, role) ==
  Let(socketOn(socketOn(s, u, "add-step"), u, "restart-game"), LAMBDA s1 :
  Let(IF ~s1.threw /\ canStartGame(s1.heap[h]) /\ s1.heap[h].game = Nil
        THEN emitRoom([s1 EXCEPT !.heap[h] = startGame(@)], h, "start-game", NoUser, 0)
        ELSE s1, LAMBDA s2 :
  socketOn(socketOn(s2, u, "leave-game"), u, "disconnect")))

\* SocketController.handleUserReconnected
handleUserReconnected(s, u, h, role) ==
  Let([s EXCEPT !.user[u].isConnected = TRUE,
                !.sock[u] = Socket(h, role)], LAMBDA s1 :
  Let(emitRoom(s1, h, "user-reconnected", u, role), LAMBDA s2 :
  subscribeToSocketEvents(s2, u, h, role)))

\* SocketController.handleUserConnected
handleUserConnected(s, u, h, role) ==
  Let([s EXCEPT !.user[u].isConnected = TRUE,
                !.sock[u] = Socket(h, role)], LAMBDA s1 :
  Let(emitRoom(s1, h, "user-joined", u, role), LAMBDA s2 :
  subscribeToSocketEvents(s2, u, h, role)))

\* SocketController.handleSocketConnection: [status, s]
handleSocketConnection(s, userId) ==
  Let(getPendingUserAndStatus(s, userId), LAMBDA found :
  Let(found.user, LAMBDA e :
  IF found.status = "pending"
    THEN [status |-> "pending",
          s |-> handleUserConnected(
                  [removeFromPending(s, e.user).s EXCEPT
                     !.promoted = @ \cup {<<e.user, 0>>}],
                  e.user, e.room, e.role)]
  ELSE IF found.status = "disconnected"
    THEN [status |-> "disconnected",
          s |-> handleUserReconnected(
                  [removeFromDisconnected(s, e.user).s EXCEPT
                     !.promoted = @ \cup {<<e.user, s.disconnects[e.user]>>}],
                  e.user, e.room, e.role)]
  ELSE [status |-> "timeout", s |-> socketEmit(s, "fail-to-join", "connection_timeout")]))

(***************************************************************************)
(* controllers/room_controller.ts                                          *)
(***************************************************************************)
ROOM_ID_MAX_LENGTH == 16

\* validateRoomId, on the length of the trimmed id (the ids used have no blanks)
validateRoomId(roomId) ==
  LET length == IF roomId = "" THEN 0 ELSE 1 IN 0 < length /\ length <= ROOM_ID_MAX_LENGTH

\* GameRoomSettings.fromJson: [error, settings]
settingsFromJson(json) ==
  IF json.boardSize < 9 \/ 19 < json.boardSize
    THEN [error |-> "invalid_board_size", settings |-> DefaultSettings]
    ELSE [error |-> "none",
          settings |-> GameRoomSettings(json.boardSize, json.allowSpectators, json.isPublic)]

\* new User(uuidv1(), nickname, false): the next unused id
newUser(s) ==
  [s EXCEPT !.user = Append(@, [isConnected |-> FALSE]),
            !.sock = Append(@, NoSocket),
            !.disconnects = Append(@, 0),
            !.left = Append(@, 0)]

\* postCreateRoom: [error, userId, s]
postCreateRoom(s, json, roomId, n) ==
  LET parsed == settingsFromJson(json)
      role == gameRoomRoleFrom(n)
      userId == Len(s.user) + 1
      h == Len(s.heap) + 1
      joined == onUserJoin(GameRoom(roomId, parsed.settings), role[1], userId)
      fail(error) == [error |-> error, userId |-> NoUser, s |-> s]
  IN IF parsed.error # "none" THEN fail(parsed.error)
     ELSE IF ~validateRoomId(roomId) THEN fail("invalid_room_id")
     ELSE IF role = Nil THEN fail("invalid_role")
     ELSE IF findRoomById(s, roomId) # 0 THEN fail("room_id_taken")
     ELSE IF ~joined.ok THEN fail("invalid_role")
     ELSE [error |-> "none", userId |-> userId,
           s |-> addPendingUser(
                   addRoom([newUser(s) EXCEPT !.heap = Append(@, joined.room)], h),
                   userId, h, role[1])]

\* postJoinRoom as it would be if the user were registered as pending before
\* the seat is asked for
postJoinRoomRegisteringFirst(s, roomId, n) ==
  LET role == gameRoomRoleFrom(n)
      h == findRoomById(s, roomId)
      userId == Len(s.user) + 1
      joined == onUserJoin(s.heap[h], role[1], userId)
      fail(error) == [error |-> error, userId |-> NoUser, s |-> s]
  IN IF role = Nil THEN fail("invalid_role")
     ELSE IF h = 0 THEN fail("invalid_room_id")
     ELSE IF ~joined.ok
       THEN [error |-> "invalid_role", userId |-> NoUser,
             s |-> [s EXCEPT !.pendingUsers =
                      Append(@, [user |-> userId, room |-> h, role |-> role[1]])]]
     ELSE [error |-> "none", userId |-> userId,
           s |-> addPendingUser([newUser(s) EXCEPT !.heap[h] = joined.room],
                                userId, h, role[1])]

\* postJoinRoom: [error, userId, s]
postJoinRoom(s, roomId, n) ==
  LET role == gameRoomRoleFrom(n)
      h == findRoomById(s, roomId)
      userId == Len(s.user) + 1
      joined == onUserJoin(s.heap[h], role[1], userId)
      fail(error) == [error |-> error, userId |-> NoUser, s |-> s]
  IN IF role = Nil THEN fail("invalid_role")
     ELSE IF h = 0 THEN fail("invalid_room_id")
     ELSE IF ~joined.ok THEN fail("invalid_role")
     ELSE [error |-> "none", userId |-> userId,
           s |-> addPendingUser([newUser(s) EXCEPT !.heap[h] = joined.room],
                                userId, h, role[1])]

\* the callback postCreateRoom and postJoinRoom hand to addPendingUser:
\* () => room.onUserLeave(role, user)
pendingRemovedHandler(s, u, h, role) ==
  [s EXCEPT !.heap[h] = onUserLeave(@, role, u), !.left[u] = Min(@ + 1, 2)]

(***************************************************************************)
(* Inputs.                                                                 *)
(***************************************************************************)
SettingsInputs == {GameRoomSettings(9, FALSE, TRUE)}

RoomIdInputs == RoomIds

RoleInputs == {1, 2, 3}

MoveInputs == {Point(0, 0), Point(0 - 1, 0), [bad |-> TRUE]}

(***************************************************************************)
(* The state machine.                                                      *)
(***************************************************************************)
\* the record of a step: the operation, the user it is about, its outcome,
\* for a timer callback the disconnect that scheduled the timer (epoch),
\* whether the handler ended by an uncaught exception, and the parameter the
\* client sent (input): the point of 'add-step', the room id and role of a
\* request
Step(op, u, result, epoch, threw) ==
  [op |-> op, user |-> u, result |-> result, epoch |-> epoch, threw |-> threw,
   input |-> Nil]

\* the number of user-left events for u among the events of one step
userLeftCount(events, u) ==
  Cardinality({k \in DOMAIN events :
                 events[k].description = "user-left" /\ events[k].user = u})

\* the state a handler leaves behind, and the record of the step
Commit(s, step) ==
  /\ heap' = s.heap
  /\ rooms' = s.rooms
  /\ user' = s.user
  /\ sock' = s.sock
  /\ pendingUsers' = s.pendingUsers
  /\ disconnectedUsers' = s.disconnectedUsers
  /\ timers' = s.timers
  /\ disconnects' = s.disconnects
  /\ promoted' = s.promoted
  /\ left' = s.left
  /\ leaveSent' = s.leaveSent
  /\ announced' = announced \cup {u \in DOMAIN s.user : userLeftCount(s.emitted, u) > 0}
  /\ registered' = s.registered
  /\ emitted' = s.emitted
  /\ sent' = s.sent
  /\ last' = step
  /\ trial' = trial

Init ==
  /\ heap = <<GameRoom("ok", DefaultSettings)>>
  /\ rooms = <<1>>
  /\ user = <<>>
  /\ sock = <<>>
  /\ pendingUsers = <<>>
  /\ disconnectedUsers = <<>>
  /\ timers = <<>>
  /\ disconnects = <<>>
  /\ promoted = {}
  /\ left = <<>>
  /\ leaveSent = {}
  /\ announced = {}
  /\ registered = <<>>
  /\ emitted = <<>>
  /\ sent = <<>>
  /\ last = Step("init", NoUser, "", 0, FALSE)
  /\ trial = Idle

\* POST /create-room
CreateRoom ==
  \E json \in SettingsInputs, roomId \in RoomIdInputs, n \in RoleInputs :
    \E r \in {postCreateRoom(Cur, json, roomId, n)} :
      /\ r.error = "none" => Len(user) < MaxUsers /\ Len(heap) < MaxRooms
      /\ Commit(r.s, [Step("create-room", r.userId, r.error, 0, FALSE)
                         EXCEPT !.input = Some([roomId |-> roomId, role |-> n])])

\* POST /join-room
JoinRoom ==
  \E roomId \in RoomIdInputs, n \in RoleInputs :
    \E r \in {postJoinRoom(Cur, roomId, n)} :
      /\ r.error = "none" => Len(user) < MaxUsers
      /\ Commit(r.s, [Step("join-room", r.userId, r.error, 0, FALSE)
                         EXCEPT !.input = Some([roomId |-> roomId, role |-> n])])

\* a socket connects presenting a user id that was handed out
Connect ==
  \E userId \in 1..Len(user) :
    \E r \in {handleSocketConnection(Cur, userId)} :
      Commit(r.s, Step("connect", userId, r.status, 0, r.s.threw))

\* a client sends 'add-step'
AddStep ==
  \E u \in 1..Len(user), param \in MoveInputs :
    /\ sock[u].open /\ "add-step" \in sock[u].listeners
    /\ \E s \in {onAddStep(Cur, u, sock[u].room, sock[u].role, param)} :
         Commit(s, [Step("add-step", u,
                         IF s.sent # <<>> THEN "rejected"
                         ELSE IF s.emitted # <<>> THEN "accepted" ELSE "ignored",
                         0, s.threw) EXCEPT !.input = Some(param)])

\* a client sends 'restart-game'
RestartGame ==
  \E u \in 1..Len(user) :
    /\ sock[u].open /\ "restart-game" \in sock[u].listeners
    /\ \E s \in {onRestartGame(Cur, u, sock[u].room, sock[u].role)} :
         Commit(s, Step("restart-game", u,
                        IF s.heap # heap THEN "voted" ELSE "ignored",
                        0, s.threw))

\* a client sends 'leave-game'
LeaveGame ==
  \E u \in 1..Len(user) :
    /\ sock[u].open /\ "leave-game" \in sock[u].listeners
    /\ \E s \in {handleUserLeft([Cur EXCEPT !.leaveSent = @ \cup {u}],
                                 u, sock[u].room, sock[u].role)} :
         Commit(s, Step("leave-game", u, "left", 0, s.threw))

\* the transport of a user closes: the socket is gone, and its 'disconnect'
\* handler runs if one is registered
Disconnect ==
  \E u \in 1..Len(user) :
    /\ sock[u].open
    /\ disconnects[u] < MaxDisconnects
    /\ \E handled \in {"disconnect" \in sock[u].listeners} :
       \E closed \in {[Cur EXCEPT !.sock[u] = NoSocket, !.disconnects[u] = @ + 1]} :
       \E s \in {IF handled THEN onDisconnect(closed, u, sock[u].room, sock[u].role)
                 ELSE closed} :
         Commit(s, Step("disconnect", u,
                        IF handled THEN "handled" ELSE "unhandled",
                        0, s.threw))

\* The timers run in the order of their deadlines.  A timer scheduled earlier
\* with a delay no longer than that of timers[k] is due before timers[k]; a
\* timer scheduled earlier with a longer delay may be due before or after it,
\* depending on the time between the two calls of setTimeout.
mayRun(k) == \A j \in 1..(k - 1) : timers[j].delay > timers[k].delay

\* a timer callback scheduled by addPendingUser or addDisconnectedUser runs
Timeout ==
  \E k \in 1..Len(timers) :
    /\ mayRun(k)
    /\ \E t \in {timers[k]} :
       \E r \in {IF t.kind = "pending"
                   THEN pendingTimerRemove([Cur EXCEPT !.timers = removeAt(@, k)], t.user)
                   ELSE disconnectedTimerRemove([Cur EXCEPT !.timers = removeAt(@, k)],
                                                t.user)} :
       \E s \in {IF ~r.removed THEN r.s
                 ELSE IF t.kind = "pending"
                   THEN pendingRemovedHandler(r.s, t.user, t.room, t.role)
                 ELSE handleUserLeft(r.s, t.user, t.room, t.role)} :
         Commit(s, Step(IF t.kind = "pending" THEN "pending-timeout"
                        ELSE "disconnected-timeout",
                        t.user,
                        IF r.removed THEN "removed" ELSE "nothing",
                        t.epoch, s.threw))

Next ==
  \/ CreateRoom
  \/ JoinRoom
  \/ Connect
  \/ AddStep
  \/ RestartGame
  \/ LeaveGame
  \/ Disconnect
  \/ Timeout

Spec == Init /\ [][Next]_vars

(***************************************************************************)
(* The rematch: the same server, followed from the moment both players of  *)
(* the room "ok" are connected and their game has started, with room for   *)
(* one more user id than MaxUsers.  The initial state is computed by       *)
(* running the handlers of that prefix: POST /join-room as Player1 and its *)
(* socket connection, then the same for Player2.                           *)
(***************************************************************************)
\* number of user ids ever handed out in the rematch
MaxRematchUsers == 3

\* the program variables after construction, as a record
Constructed ==
  [heap |-> <<GameRoom("ok", DefaultSettings)>>, rooms |-> <<1>>,
   user |-> <<>>, sock |-> <<>>, pendingUsers |-> <<>>, disconnectedUsers |-> <<>>,
   timers |-> <<>>, disconnects |-> <<>>, promoted |-> {}, left |-> <<>>,
   leaveSent |-> {}, registered |-> <<>>, threw |-> FALSE, emitted |-> <<>>, sent |-> <<>>]

\* the record a handler starts from, after the handler that left s behind
nextHandler(s) == [s EXCEPT !.threw = FALSE, !.emitted = <<>>, !.sent = <<>>]

\* Player1 registers and connects, then Player2 registers
BothRegistered ==
  postJoinRoom(
    nextHandler(handleSocketConnection(
                  nextHandler(postJoinRoom(Constructed, "ok", Player1).s), 1).s),
    "ok", Player2).s

\* Player2 connects: the game starts
BothConnected == handleSocketConnection(nextHandler(BothRegistered), 2).s

RematchInit ==
  /\ heap = BothConnected.heap
  /\ rooms = BothConnected.rooms
  /\ user = BothConnected.user
  /\ sock = BothConnected.sock
  /\ pendingUsers = BothConnected.pendingUsers
  /\ disconnectedUsers = BothConnected.disconnectedUsers
  /\ timers = BothConnected.timers
  /\ disconnects = BothConnected.disconnects
  /\ promoted = BothConnected.promoted
  /\ left = BothConnected.left
  /\ leaveSent = BothConnected.leaveSent
  /\ announced = {}
  /\ registered = BothConnected.registered
  /\ emitted = BothConnected.emitted
  /\ sent = BothConnected.sent
  /\ last = Step("connect", 2, "pending", 0, BothConnected.threw)
  /\ trial = Idle

\* POST /join-room, while user ids remain
RematchJoinRoom ==
  \E roomId \in RoomIdInputs, n \in RoleInputs :
    \E r \in {postJoinRoom(Cur, roomId, n)} :
      /\ r.error = "none" => Len(user) < MaxRematchUsers
      /\ Commit(r.s, [Step("join-room", r.userId, r.error, 0, FALSE)
                         EXCEPT !.input = Some([roomId |-> roomId, role |-> n])])

RematchNext ==
  \/ CreateRoom
  \/ RematchJoinRoom
  \/ Connect
  \/ AddStep
  \/ RestartGame
  \/ LeaveGame
  \/ Disconnect
  \/ Timeout

RematchSpec == RematchInit /\ [][RematchNext]_vars

(***************************************************************************)
(* The game engine on its own: one Game object, constructed with the       *)
(* smallest board a room can have, brought to its position by addStep      *)
(* calls, then exercised by further calls of addStep and by reads of the   *)
(* winner and isFinished getters.                                          *)
(***************************************************************************)
\* the smallest boardSize GameRoomSettings.fromJson accepts
MinBoardSize == 9

\* number of calls made on the Game object after the opening
MaxCalls == 3

\* the moves already played when the calls begin: none, or four stones of
\* each side on the rows 0 (Black) and 1 (White)
EngineOpenings ==
  {<<>>,
   <<Point(0, 0), Point(1, 0), Point(0, 1), Point(1, 1),
     Point(0, 2), Point(1, 2), Point(0, 3), Point(1, 3)>>}

\* the points passed to addStep
EnginePoints ==
  {Point(0, 0), Point(0, 4), Point(1, 4), Point(0 - 1, 0), Point(0, MinBoardSize)}

\* addStep called with each point in turn; the opening moves all succeed
RECURSIVE Play(_, _)
Play(game, points) ==
  IF points = <<>> THEN game
  ELSE Play(addStep(game, Head(points)).game, Tail(points))

\* the record of a call on the Game object
Trial(op, before, point, error, game, won, finished, calls) ==
  [op |-> op, before |-> before, point |-> point, error |-> error, game |-> game,
   winner |-> won, finished |-> finished, calls |-> calls]

NotRead == [threw |-> FALSE, value |-> Nil]

programVars ==
  <<heap, rooms, user, sock, pendingUsers, disconnectedUsers, timers,
    disconnects, promoted, left, leaveSent, announced, registered, emitted, sent,
    last>>

EngineInit ==
  /\ heap = Constructed.heap
  /\ rooms = Constructed.rooms
  /\ user = Constructed.user
  /\ sock = Constructed.sock
  /\ pendingUsers = Constructed.pendingUsers
  /\ disconnectedUsers = Constructed.disconnectedUsers
  /\ timers = Constructed.timers
  /\ disconnects = Constructed.disconnects
  /\ promoted = Constructed.promoted
  /\ left = Constructed.left
  /\ leaveSent = Constructed.leaveSent
  /\ announced = {}
  /\ registered = Constructed.registered
  /\ emitted = Constructed.emitted
  /\ sent = Constructed.sent
  /\ last = Step("init", NoUser, "", 0, FALSE)
  /\ \E opening \in EngineOpenings :
       \E game \in {Play(NewGame(MinBoardSize), opening)} :
         trial = Trial("new", game, Nil, "none", game, NotRead, NotRead, 0)

\* game.addStep(point)
EngineAddStep ==
  \E point \in EnginePoints :
    /\ trial.calls < MaxCalls
    /\ \E r \in {addStep(trial.game, point)} :
         trial' = Trial("addStep", trial.game, Some(point), r.error, r.game,
                        NotRead, NotRead, trial.calls + 1)
    /\ UNCHANGED programVars

\* game.winner, then game.isFinished
EngineRead ==
  /\ trial.calls < MaxCalls
  /\ \E w \in {winner(trial.game)} :
     \E f \in {isFinished(w.game)} :
       trial' = Trial("read", trial.game, Nil, "none", f.game,
                      [threw |-> w.threw, value |-> w.value],
                      [threw |-> f.threw, value |-> f.value],
                      trial.calls + 1)
  /\ UNCHANGED programVars

EngineNext ==
  \/ EngineAddStep
  \/ EngineRead

EngineSpec == EngineInit /\ [][EngineNext]_vars

(***************************************************************************)
(* Vocabulary of the properties.                                           *)
(***************************************************************************)
Users == 1..Len(user)

inPending(u) == findIndex(pendingUsers, u) # 0

inDisconnected(u) == findIndex(disconnectedUsers, u) # 0

\* the seat of the role u registered with, in the room u registered with, holds u
holdsSeatIn(rooms_, u) ==
  LET room == rooms_[registered[u].room]
      role == registered[u].role
  IN IF role = Player1 THEN room.player1 = u
     ELSE IF role = Player2 THEN room.player2 = u
     ELSE indexOf(room.spectators, u) # 0

holdsSeat(u) == holdsSeatIn(heap, u)

\* the timer of the given kind armed for u by the given disconnect has not run
timerArmed(kind, u, epoch) ==
  \E k \in 1..Len(timers) :
    timers[k].kind = kind /\ timers[k].user = u /\ timers[k].epoch = epoch

\* the last step broadcast a room event with the description
described(events, description) ==
  \E k \in 1..Len(events) : events[k].description = description

isTimeout(step) == step.op \in {"pending-timeout", "disconnected-timeout"}

(***************************************************************************)
(* Registry of pending and disconnected users.                             *)
(***************************************************************************)
\* C1: a registry entry (the pending entry of a user, or the entry of one of
\* the user's disconnects) has at most one terminal outcome: an expiry
\* callback never runs for an entry that a connection has taken.
C1_OneOutcome ==
  (isTimeout(last) /\ last.result = "removed")
    => <<last.user, last.epoch>> \notin promoted

\* C2: when the timer armed by the join runs and no connection has presented
\* the user's id, the expiry has happened: the user is not in the pending
\* registry, the leave callback has run once and the seat is cleared.
C2_PendingExpires ==
  (last.op = "pending-timeout" /\ <<last.user, 0>> \notin promoted)
    => /\ ~inPending(last.user)
       /\ left[last.user] = 1
       /\ ~holdsSeat(last.user)

\* C3: a connection presenting the id of a user who never connected, after
\* the timer armed by the join has run, resolves to not-found: the user does
\* not become connected and no user-joined is broadcast.
C3_LateConnectNotFound ==
  (/\ last.op = "connect"
   /\ ~timerArmed("pending", last.user, 0)
   /\ (last.result = "pending" \/ <<last.user, 0>> \notin promoted))
    => /\ last.result = "timeout"
       /\ ~user[last.user].isConnected
       /\ ~described(emitted, "user-joined")

\* C4: a timer removes a user from the disconnected registry only if it is
\* the timer armed by the disconnect that put the user there, not a timer
\* armed by an earlier disconnect or by the join.
C4_OwnTimerOnly ==
  (isTimeout(last) /\ last.result = "removed")
    => (last.op = "disconnected-timeout" /\ last.epoch = disconnects[last.user])

\* C5: a connection presenting the id of a user whose disconnect timer has
\* not run yet resolves to disconnected: user-reconnected is broadcast, the
\* user is connected and holds the seat, and the game, gameInProgress and the
\* restart votes of the room are as they were.
C5_ReconnectInGrace ==
  [][\A u \in Users :
       (/\ last'.op = "connect" /\ last'.user = u
        /\ timerArmed("disconnected", u, disconnects[u]))
         => LET h == registered[u].room IN
            /\ last'.result = "disconnected"
            /\ described(emitted', "user-reconnected")
            /\ user'[u].isConnected
            /\ holdsSeatIn(heap', u)
            /\ heap'[h].game = heap[h].game
            /\ heap'[h].gameInProgress = heap[h].gameInProgress
            /\ heap'[h].player1Restart = heap[h].player1Restart
            /\ heap'[h].player2Restart = heap[h].player2Restart]_vars

C7_RemovedIsTerminal ==
  [][\A u \in Users :
       left[u] >= 1
         => /\ findIndex(pendingUsers', u) = 0
            /\ findIndex(disconnectedUsers', u) = 0
            /\ (last'.user = u /\ last'.op = "connect") => last'.result = "timeout"
            /\ (last'.user = u) => (heap' = heap /\ rooms' = rooms)]_vars

(***************************************************************************)
(* The room.                                                               *)
(***************************************************************************)
\* the condition under which a join is to succeed
joinAllowed(room, role) ==
  IF role = Player1 THEN room.player1 = NoUser /\ ~room.gameInProgress
  ELSE IF role = Player2 THEN room.player2 = NoUser /\ ~room.gameInProgress
  ELSE room.settings.allowSpectators

\* the room with the user seated in the role
seated(room, role, u) ==
  IF role = Player1 THEN [room EXCEPT !.player1 = u]
  ELSE IF role = Player2 THEN [room EXCEPT !.player2 = u]
  ELSE [room EXCEPT !.spectators = Append(@, u)]

\* C8: on every room the program reaches, onUserJoin returns true and seats
\* the user exactly when the seat is empty and no game is in progress (a
\* player role) or spectators are allowed (the spectator role), and otherwise
\* returns false and leaves the room as it is; no step replaces the occupant
\* of a player seat by another user while the game is in progress; a room
\* that does not allow spectators has none.
C8_JoinContract ==
  [][\A h \in DOMAIN heap' :
       /\ \A role \in Roles, u \in 1..(MaxUsers + 1) :
            LET r == onUserJoin(heap'[h], role, u) IN
            /\ r.ok <=> joinAllowed(heap'[h], role)
            /\ r.room = IF r.ok THEN seated(heap'[h], role, u) ELSE heap'[h]
       /\ (h \in DOMAIN heap /\ heap[h].gameInProgress)
            => /\ heap'[h].player1 \in {heap[h].player1, NoUser}
               /\ heap'[h].player2 \in {heap[h].player2, NoUser}
       /\ ~heap'[h].settings.allowSpectators => heap'[h].spectators = <<>>]_vars

\* a join was refused in a room whose game is in progress, and a join was
\* refused for the spectator role in a room that does not allow spectators
C8_Witness ==
  /\ last.op = "join-room" /\ last.result = "invalid_role"
  /\ \E h \in DOMAIN heap : heap[h].gameInProgress /\ ~heap[h].settings.allowSpectators

\* the seats and restart votes of a room
seatState(room) ==
  <<room.player1, room.player2, room.spectators, room.player1Restart, room.player2Restart>>

\* C9: on every room the program reaches, for every role and a user who is
\* not in the room, onUserJoin followed by onUserLeave leaves the seats and
\* the restart votes as they were before the join.
C9_JoinLeaveRestores ==
  \A h \in DOMAIN heap, role \in Roles :
    LET u == Len(user) + 1
        joined == onUserJoin(heap[h], role, u).room
    IN seatState(onUserLeave(joined, role, u)) = seatState(heap[h])

\* the rooms canResetGame is read on: a room between two handlers, and the
\* room inside the restart handler, which sets the vote of the player and
\* then reads canResetGame
readByCanResetGame(room) ==
  {room, [room EXCEPT !.player1Restart = TRUE], [room EXCEPT !.player2Restart = TRUE]}

\* C10: on every room the program reaches, and on that room with a restart
\* vote just set by the restart handler, canResetGame is true exactly when
\* a game exists, it is not in progress, and each player seat is empty or has
\* its restart vote set.
C10_CanResetGame ==
  \A h \in DOMAIN heap :
    \A room \in readByCanResetGame(heap[h]) :
      canResetGame(room)
        <=> /\ room.game # Nil
            /\ ~room.gameInProgress
            /\ (room.player1 = NoUser \/ room.player1Restart)
            /\ (room.player2 = NoUser \/ room.player2Restart)

\* a listed room with a game that is over, one seat empty and the other held
\* by a player who has not voted: it cannot be reset, and can be once the
\* restart handler has set the vote of that player
C10_Witness ==
  \E k \in DOMAIN rooms :
    LET room == heap[rooms[k]] IN
    /\ room.game # Nil /\ ~room.gameInProgress
    /\ room.player1 = NoUser /\ room.player2 # NoUser
    /\ ~canResetGame(room)
    /\ canResetGame([room EXCEPT !.player2Restart = TRUE])

(***************************************************************************)
(* Reset and rematch.                                                      *)
(***************************************************************************)
\* the step discarded the game of room h: a game that was over is gone, or a
\* game is in progress again (startGame runs only on a room without a game)
gameWasReset(h) ==
  /\ heap[h].game # Nil /\ ~heap[h].gameInProgress
  /\ heap'[h].game = Nil \/ heap'[h].gameInProgress

\* the room right after startGame
freshlyStarted(room) ==
  room.gameInProgress /\ room.game = Some(NewGame(room.settings.boardSize))

\* C11: every step that resets the game of a room (a restart vote or a
\* departure) leaves both restart votes cleared and the old game discarded,
\* and if both player seats are filled after the step a new game has been
\* started by the same step (a fresh Game, gameInProgress true); otherwise the
\* room has no game.
C11_ResetThenStart ==
  [][\A h \in DOMAIN heap :
       gameWasReset(h) =>
         /\ ~heap'[h].player1Restart /\ ~heap'[h].player2Restart
         /\ IF canStartGame(heap'[h]) THEN freshlyStarted(heap'[h])
            ELSE heap'[h].game = Nil /\ ~heap'[h].gameInProgress]_vars

\* a restart vote has just reset the game of a room whose two seats are
\* filled, and the next game is in progress
C11_Witness ==
  /\ last.op = "restart-game" /\ last.result = "voted"
  /\ \E h \in DOMAIN heap :
       /\ sock[last.user].room = h
       /\ canStartGame(heap[h]) /\ freshlyStarted(heap[h])
       /\ ~heap[h].player1Restart /\ ~heap[h].player2Restart

\* the descriptions of the room events, in the order they were broadcast
descriptions(events) == [k \in 1..Len(events) |-> events[k].description]

\* the restart vote of a role
restartVote(room, role) ==
  IF role = Player1 THEN room.player1Restart ELSE room.player2Restart

otherPlayer(role) == IF role = Player1 THEN Player2 ELSE Player1

\* C12: in a room with both seats filled and a game that is over, the
\* restart vote of a player who has not voted, while the other player has not
\* voted either, sets that vote only, keeps the game and broadcasts
\* user-set-restart; when the other player has voted, it resets the room,
\* starts a new game in the same step, and broadcasts user-set-restart and
\* then start-game (never game-reset).
C12_RestartVotes ==
  [][\A u \in Users :
       (/\ last'.op = "restart-game" /\ last'.user = u
        /\ sock[u].role # Spectator
        /\ canStartGame(heap[sock[u].room])
        /\ heap[sock[u].room].game # Nil /\ ~heap[sock[u].room].gameInProgress
        /\ ~restartVote(heap[sock[u].room], sock[u].role))
       => IF ~restartVote(heap[sock[u].room], otherPlayer(sock[u].role))
            THEN /\ heap'[sock[u].room] =
                      IF sock[u].role = Player1
                        THEN [heap[sock[u].room] EXCEPT !.player1Restart = TRUE]
                        ELSE [heap[sock[u].room] EXCEPT !.player2Restart = TRUE]
                 /\ descriptions(emitted') = <<"user-set-restart">>
            ELSE /\ freshlyStarted(heap'[sock[u].room])
                 /\ ~heap'[sock[u].room].player1Restart
                 /\ ~heap'[sock[u].room].player2Restart
                 /\ descriptions(emitted') = <<"user-set-restart", "start-game">>]_vars

(***************************************************************************)
(* The game engine.                                                        *)
(***************************************************************************)
\* C13: addStep fails with OutOfBounds for every point with a coordinate
\* outside [0, boardSize), whatever the board holds, and with SpotTaken for
\* every point in range whose spot is not empty; in both cases the board, the
\* move history and currentSide are what they were before the call.
C13_AddStepFails ==
  trial.op = "addStep" =>
    LET point == trial.point[1]
        before == trial.before
        unchanged == /\ trial.game.board = before.board
                     /\ trial.game.steps = before.steps
                     /\ trial.game.currentSide = before.currentSide
    IN /\ (point.x < 0 \/ point.x >= before.board.size
           \/ point.y < 0 \/ point.y >= before.board.size)
            => trial.error = "OutOfBounds" /\ unchanged
       /\ (point \in DOMAIN before.board.spots /\ before.board.spots[point] # Empty)
            => trial.error = "SpotTaken" /\ unchanged

\* addStep was called a second time in a row on the point of the last move
\* and failed with SpotTaken
C13_Witness ==
  /\ trial.op = "addStep" /\ trial.error = "SpotTaken"
  /\ trial.before.steps # <<>>
  /\ trial.point[1] = trial.before.steps[Len(trial.before.steps)]

\* C14: addStep on an empty point in range succeeds: it places a stone of
\* the side that was to move at that point and nowhere else, appends the
\* point to the move history, and flips currentSide (Black to White, White
\* to Black).
C14_AddStepPlaces ==
  trial.op = "addStep" =>
    LET point == trial.point[1]
        before == trial.before
    IN (point \in DOMAIN before.board.spots /\ before.board.spots[point] = Empty)
         => /\ trial.error = "none"
            /\ trial.game.board.size = before.board.size
            /\ trial.game.board.spots[point] = before.currentSide
            /\ \A q \in DOMAIN before.board.spots \ {point} :
                 trial.game.board.spots[q] = before.board.spots[q]
            /\ DOMAIN trial.game.board.spots = DOMAIN before.board.spots
            /\ trial.game.steps = Append(before.steps, point)
            /\ (before.currentSide = Black => trial.game.currentSide = White)
            /\ (before.currentSide = White => trial.game.currentSide = Black)

\* White has just moved on a board that already held stones
C14_Witness ==
  /\ trial.op = "addStep" /\ trial.error = "none"
  /\ trial.before.currentSide = White /\ trial.before.steps # <<>>
  /\ trial.game.currentSide = Black

\* the directions of a row (Point(i, j) for growing j), a column, a
\* down-sloping and an up-sloping diagonal
Directions == {Point(0, 1), Point(1, 0), Point(1, 1), Point(1, 0 - 1)}

\* the directions a line may be scanned in
ScanDirections == Directions \cup {Point(0 - 1, 1)}

along(p, d, k) == Point(p.x + k * d.x, p.y + k * d.y)

Sides == {Black, White}

\* WIN_CONSEC_SPOTS stones of the side from p in direction d
runAt(board, p, d, side) ==
  \A k \in 0..(WIN_CONSEC_SPOTS - 1) :
    /\ along(p, d, k) \in DOMAIN board.spots
    /\ board.spots[along(p, d, k)] = side

hasRun(board, side) ==
  \E p \in DOMAIN board.spots, d \in Directions : runAt(board, p, d, side)

\* points is a contiguous run of the side on one line, in scan order
isRun(board, points, side) ==
  /\ Len(points) >= WIN_CONSEC_SPOTS
  /\ \E d \in ScanDirections :
       \A k \in 1..Len(points) :
         /\ points[k] = along(points[1], d, k - 1)
         /\ points[k] \in DOMAIN board.spots
         /\ board.spots[points[k]] = side

\* C15: on every board reached by addStep calls, reading winner and
\* isFinished succeeds; if the board holds at least 5 consecutive stones of
\* one colour on a row, a column or a diagonal, isFinished is true and the
\* winner has the colour of such a run and, as points, a contiguous run of at
\* least 5 points of that colour in scan order (Black on (0,0)..(0,4) gives
\* those five points in that order); if there is no such run the winner is
\* absent.
C15_WinDetection ==
  trial.op = "read" =>
    /\ ~trial.winner.threw /\ ~trial.finished.threw
    /\ IF \E side \in Sides : hasRun(trial.game.board, side)
         THEN /\ trial.finished.value
              /\ trial.winner.value # Nil
              /\ hasRun(trial.game.board, trial.winner.value[1].side)
              /\ isRun(trial.game.board, trial.winner.value[1].points,
                       trial.winner.value[1].side)
              /\ (/\ trial.game.steps # <<>>
                  /\ trial.game.steps[Len(trial.game.steps)] = Point(0, 4)
                  /\ runAt(trial.game.board, Point(0, 0), Point(0, 1), Black))
                   => trial.winner.value[1] =
                        [side |-> Black,
                         points |-> [k \in 1..WIN_CONSEC_SPOTS |-> Point(0, k - 1)]]
         ELSE trial.winner.value = Nil

\* C16: reading isFinished succeeds and gives true exactly when a winner is
\* present or the board has no empty spot; a board with an empty spot and no
\* run of 5 gives false with the winner absent.
C16_IsFinished ==
  trial.op = "read" =>
    /\ ~trial.winner.threw /\ ~trial.finished.threw
    /\ trial.finished.value
         <=> (trial.winner.value # Nil \/ BoardIsFull(trial.game.board))
    /\ ((\E p \in DOMAIN trial.game.board.spots : trial.game.board.spots[p] = Empty)
        /\ ~\E side \in Sides : hasRun(trial.game.board, side))
         => ~trial.finished.value /\ trial.winner.value = Nil

\* the lines of a board in the order of the specification: the rows by
\* increasing index, the columns by increasing index, the down-sloping
\* diagonals by increasing offset (y - x), the up-sloping diagonals by
\* increasing offset (x + y); each line from its start
orderedLine(size, start, d) ==
  LET length == CHOOSE n \in 0..size :
                  /\ \A k \in 0..(n - 1) :
                       LET q == along(start, d, k)
                       IN 0 <= q.x /\ q.x < size /\ 0 <= q.y /\ q.y < size
                  /\ n = size \/ LET q == along(start, d, n)
                                 IN ~(0 <= q.x /\ q.x < size /\ 0 <= q.y /\ q.y < size)
  IN [k \in 1..length |-> along(start, d, k - 1)]

orderedLines(size) ==
  [i \in 1..size |-> orderedLine(size, Point(i - 1, 0), Point(0, 1))]
  \o [i \in 1..size |-> orderedLine(size, Point(0, i - 1), Point(1, 0))]
  \o [i \in 1..(size - 1) |-> orderedLine(size, Point(size - i, 0), Point(1, 1))]
  \o [i \in 1..size |-> orderedLine(size, Point(0, i - 1), Point(1, 1))]
  \o [i \in 1..size |-> orderedLine(size, Point(i - 1, 0), Point(0 - 1, 1))]
  \o [i \in 1..(size - 1) |-> orderedLine(size, Point(size - 1, i), Point(0 - 1, 1))]

\* the positions of a line where a run of WIN_CONSEC_SPOTS stones of one
\* colour ends
runEnds(board, line) ==
  {k \in WIN_CONSEC_SPOTS..Len(line) :
     \E side \in Sides :
       \A m \in (k - WIN_CONSEC_SPOTS + 1)..k : board.spots[line[m]] = side}

linesWithRun(board) ==
  {n \in 1..Len(orderedLines(board.size)) :
     runEnds(board, orderedLines(board.size)[n]) # {}}

\* the first run met on the first line that has one
firstRun(board) ==
  LET lines == orderedLines(board.size)
      n == CHOOSE a \in linesWithRun(board) : \A b \in linesWithRun(board) : a <= b
      k == CHOOSE a \in runEnds(board, lines[n]) :
             \A b \in runEnds(board, lines[n]) : a <= b
  IN [side |-> board.spots[lines[n][k]],
      points |-> SubSeq(lines[n], k - WIN_CONSEC_SPOTS + 1, k)]

\* C17: when the board holds runs of 5 on more than one line, the winner
\* read is the first run met on the first of those lines in the order rows,
\* columns, down-sloping diagonals, up-sloping diagonals, each by increasing
\* index.
C17_FirstLineWins ==
  (trial.op = "read" /\ Cardinality(linesWithRun(trial.game.board)) > 1)
    => /\ ~trial.winner.threw
       /\ trial.winner.value = Some(firstRun(trial.game.board))

(***************************************************************************)
(* Move commands and protocol violations.                                  *)
(***************************************************************************)
\* a room as its members see it: the seats, the votes, gameInProgress and the
\* board, history and side to move of the game (not the winner cache)
roomView(room) ==
  [player1 |-> room.player1, player2 |-> room.player2, spectators |-> room.spectators,
   player1Restart |-> room.player1Restart, player2Restart |-> room.player2Restart,
   gameInProgress |-> room.gameInProgress,
   game |-> IF room.game = Nil THEN Nil
            ELSE Some([board |-> room.game[1].board, steps |-> room.game[1].steps,
                       currentSide |-> room.game[1].currentSide])]

\* the step is the 'add-step' handler of u / the 'restart-game' handler of u
movedBy(u) == last'.op = "add-step" /\ last'.user = u

votedBy(u) == last'.op = "restart-game" /\ last'.user = u

\* the socket of u is that of a player of a room whose game is in progress
\* and not decided
playing(u) ==
  /\ sock[u].role # Spectator
  /\ heap[sock[u].room].gameInProgress /\ heap[sock[u].room].game # Nil
  /\ ~BoardIsFull(heap[sock[u].room].game[1].board)
  /\ ~\E side \in Sides : hasRun(heap[sock[u].room].game[1].board, side)

\* it is the turn of the player: Player1 plays Black, Player2 plays White
onTurn(u) ==
  heap[sock[u].room].game[1].currentSide
    = (IF sock[u].role = Player1 THEN Black ELSE White)

\* the point names an empty spot of the board of the room of u
playable(u, input) ==
  /\ PointFromJson(input) # Nil
  /\ PointFromJson(input)[1] \in DOMAIN heap[sock[u].room].game[1].board.spots
  /\ heap[sock[u].room].game[1].board.spots[PointFromJson(input)[1]] = Empty

\* C18: a move command that is accepted (a player on turn, an empty point in
\* range, a game in progress and not decided) places the stone and
\* broadcasts step-added; if the move finished the game the same step sets
\* gameInProgress to false and broadcasts game-ended after step-added; a move
\* that does not finish the game broadcasts step-added alone.
C18_AcceptedMove ==
  [][\A u \in Users :
       (movedBy(u) /\ playing(u) /\ onTurn(u) /\ playable(u, last'.input[1]))
       => LET h == sock[u].room
              after == addStep(heap[h].game[1], PointFromJson(last'.input[1])[1]).game
              finished == \/ BoardIsFull(after.board)
                          \/ \E side \in Sides : hasRun(after.board, side)
          IN /\ heap'[h].game # Nil
             /\ heap'[h].game[1].board = after.board
             /\ heap'[h].game[1].steps = after.steps
             /\ heap'[h].gameInProgress = ~finished
             /\ descriptions(emitted') =
                  IF finished THEN <<"step-added", "game-ended">>
                  ELSE <<"step-added">>]_vars

\* C19: a move command of a player on turn that is rejected (the point is
\* unparseable, out of bounds or taken) sends fail-to-add-step to the acting
\* socket, broadcasts nothing, and leaves the game, gameInProgress, the seats
\* and the votes of every room unchanged.
C19_RejectedMove ==
  [][\A u \in Users :
       (movedBy(u) /\ playing(u) /\ onTurn(u) /\ ~playable(u, last'.input[1]))
       => /\ ~last'.threw
          /\ sent' = <<[event |-> "fail-to-add-step", error |-> ""]>>
          /\ emitted' = <<>>
          /\ \A h \in DOMAIN heap : roomView(heap'[h]) = roomView(heap[h])]_vars

\* the command of u is a protocol violation: a move out of turn, a move or a
\* restart vote of a spectator, a move in a room with no game in progress, a
\* restart vote in a room with no game or with a game in progress
protocolViolation(u) ==
  \/ /\ movedBy(u)
     /\ \/ sock[u].role = Spectator
        \/ ~heap[sock[u].room].gameInProgress
        \/ playing(u) /\ ~onTurn(u) /\ playable(u, last'.input[1])
  \/ /\ votedBy(u)
     /\ \/ sock[u].role = Spectator
        \/ heap[sock[u].room].game = Nil
        \/ heap[sock[u].room].gameInProgress

\* C20: a protocol violation is a silent no-op: the handler returns without
\* changing any room, user or registry, and without any notification, to the
\* sender or to the room.
C20_SilentNoOps ==
  [][\A u \in Users :
       protocolViolation(u)
       => /\ ~last'.threw
          /\ sent' = <<>> /\ emitted' = <<>>
          /\ heap' = heap /\ rooms' = rooms /\ user' = user /\ sock' = sock
          /\ pendingUsers' = pendingUsers
          /\ disconnectedUsers' = disconnectedUsers]_vars

(***************************************************************************)
(* Restart votes, departures and the directory.                            *)
(***************************************************************************)
\* C21: a restart-game command from a player seat whose vote is already set
\* returns without changing any state and without broadcasting or sending
\* anything: no second user-set-restart, no reset, no start.
C21_RepeatedVote ==
  [][\A u \in Users :
       (/\ votedBy(u) /\ sock[u].role # Spectator
        /\ restartVote(heap[sock[u].room], sock[u].role))
       => /\ ~last'.threw
          /\ emitted' = <<>> /\ sent' = <<>>
          /\ heap' = heap /\ rooms' = rooms /\ user' = user /\ sock' = sock
          /\ pendingUsers' = pendingUsers
          /\ disconnectedUsers' = disconnectedUsers]_vars

\* a player whose vote is set on a game that is over has just sent
\* restart-game again, and the vote and the game are still there
C21_Witness ==
  /\ last.op = "restart-game" /\ last.result = "ignored"
  /\ sock[last.user].role # Spectator
  /\ restartVote(heap[sock[last.user].room], sock[last.user].role)
  /\ heap[sock[last.user].room].game # Nil
  /\ ~heap[sock[last.user].room].gameInProgress

\* the step ran handleUserLeft for u: a leave-game command, or the timer of
\* a disconnect that found the entry of u
departed(u) ==
  /\ last'.user = u
  /\ \/ last'.op = "leave-game"
     \/ last'.op = "disconnected-timeout" /\ last'.result = "removed"

\* the room and the role the handlers of u close over
roomOf(u) == registered[u].room

roleOf(u) == registered[u].role

\* C22: when handleUserLeft does not leave the room empty, user-left is the
\* last event broadcast: if a player left while the game was in progress the
\* game is ended and game-ended is broadcast before user-left; otherwise, if
\* canResetGame holds after the seat is cleared, the game is reset and
\* game-reset is broadcast before user-left; otherwise user-left is the only
\* event.
C22_LeaveEvents ==
  [][\A u \in Users :
       (departed(u) /\ ~isEmpty(onUserLeave(heap[roomOf(u)], roleOf(u), u)))
       => LET room == onUserLeave(heap[roomOf(u)], roleOf(u), u)
          IN IF room.gameInProgress /\ roleOf(u) # Spectator
               THEN /\ ~heap'[roomOf(u)].gameInProgress
                    /\ descriptions(emitted') = <<"game-ended", "user-left">>
             ELSE IF canResetGame(room)
               THEN /\ heap'[roomOf(u)].game = Nil
                    /\ descriptions(emitted') = <<"game-reset", "user-left">>
             ELSE descriptions(emitted') = <<"user-left">>]_vars

\* the room object is in the directory
listed(rooms_, h) == \E k \in DOMAIN rooms_ : rooms_[k] = h

\* some user registered with the room
hadParticipant(h) == \E u \in Users : registered[u].room = h

\* C23: no room that has had a participant is in the directory while it has
\* no seated player and no spectator: the departure that empties a room
\* (leave, disconnect expiry, pending expiry) removes it in the same step.
C23_NoEmptyListedRoom ==
  \A h \in DOMAIN heap :
    (listed(rooms, h) /\ hadParticipant(h)) => ~isEmpty(heap[h])

\* the seats, spectators, game, flag and votes of a room, or its place in
\* the directory, changed in the step; a room constructed by the step counts
changedRoom(h) ==
  \/ h \notin DOMAIN heap
  \/ heap'[h] # heap[h]
  \/ listed(rooms', h) # listed(rooms, h)

\* C24: a step changes at most one room: when the seats, spectators, game,
\* gameInProgress, votes or directory membership of a room change, those of
\* every other room are what they were; and the room changed by a socket or
\* timer step of a user is the room of that user.
C24_RoomsIndependent ==
  [][/\ \A h1, h2 \in DOMAIN heap' :
          (changedRoom(h1) /\ changedRoom(h2)) => h1 = h2
     /\ \A h \in DOMAIN heap' :
          (changedRoom(h) /\ last'.user \in Users
           /\ last'.op \notin {"create-room", "join-room"})
            => h = roomOf(last'.user)]_vars

\* a user has just left a room, which is no longer in the directory, while
\* another room with a participant is in the directory
C24_Witness ==
  /\ last.op = "leave-game"
  /\ ~listed(rooms, roomOf(last.user))
  /\ \E h \in DOMAIN heap :
       h # roomOf(last.user) /\ listed(rooms, h) /\ hadParticipant(h)

\* the step is a create-room / join-room request with the room id and role
requested(op, roomId, role) ==
  last'.op = op /\ last'.input = Some([roomId |-> roomId, role |-> role])

\* the room the directory gives for the id (0 if none)
directoryRoom(roomId) == findRoomById(Cur, roomId)

\* the role cannot be seated in the room: the seat is occupied, a game is in
\* progress, or spectators are not allowed
cannotSeat(room, role) ==
  \/ role = Player1 /\ (room.player1 # NoUser \/ room.gameInProgress)
  \/ role = Player2 /\ (room.player2 # NoUser \/ room.gameInProgress)
  \/ role = Spectator /\ ~room.settings.allowSpectators

\* C25: a create-room request for an id that is in the directory fails with
\* room_id_taken; a join-room request fails with invalid_room_id for an
\* unknown room and with invalid_role when the role cannot be seated; and
\* every failing create-room or join-room request leaves the directory,
\* every room, the users and both registry collections (and the timers) as
\* they were.
C25_FailedRequest ==
  [][/\ \A roomId \in RoomIdInputs, role \in RoleInputs :
          /\ (requested("create-room", roomId, role) /\ directoryRoom(roomId) # 0)
               => last'.result = "room_id_taken"
          /\ (requested("join-room", roomId, role) /\ directoryRoom(roomId) = 0)
               => last'.result = "invalid_room_id"
          /\ (/\ requested("join-room", roomId, role) /\ directoryRoom(roomId) # 0
              /\ cannotSeat(heap[directoryRoom(roomId)], role))
               => last'.result = "invalid_role"
     /\ (last'.op \in {"create-room", "join-room"} /\ last'.result # "none")
          => /\ heap' = heap /\ rooms' = rooms /\ user' = user
             /\ pendingUsers' = pendingUsers
             /\ disconnectedUsers' = disconnectedUsers
             /\ timers' = timers]_vars

\* a join-room request for a player seat has just failed with invalid_role
\* on a room whose game is in progress
C25_Witness ==
  /\ last.op = "join-room" /\ last.result = "invalid_role"
  /\ last.input[1].role # Spectator
  /\ directoryRoom(last.input[1].roomId) # 0
  /\ heap[directoryRoom(last.input[1].roomId)].gameInProgress

\* the number of entries of u in a registry collection
entriesOf(entries, u) == Cardinality({k \in DOMAIN entries : entries[k].user = u})

seatCleared(rooms_, u) ==
  IF roleOf(u) = Player1 THEN rooms_[roomOf(u)].player1 = NoUser
  ELSE IF roleOf(u) = Player2 THEN rooms_[roomOf(u)].player2 = NoUser
  ELSE indexOf(rooms_[roomOf(u)].spectators, u) = 0

\* C27: the leave-game command of a user clears the seat of the user in the
\* same step (onUserLeave runs once, at once), and once the command has been
\* handled the user is never in the disconnected collection and no
\* disconnect timer of the user removes anything.
C27_LeaveIsImmediate ==
  [][\A u \in Users :
       /\ (last'.op = "leave-game" /\ last'.user = u)
            => seatCleared(heap', u) /\ left'[u] = Min(left[u] + 1, 2)
       /\ u \in leaveSent'
            => /\ findIndex(disconnectedUsers', u) = 0
               /\ ~(/\ last'.op = "disconnected-timeout" /\ last'.user = u
                    /\ last'.result = "removed")]_vars

\* C28: when the timer armed by the latest disconnect of a user fires and
\* the user has not reconnected since that disconnect, handleUserLeft runs
\* for the user, once: the step finds and removes the entry of the user in
\* the disconnected collection, onUserLeave runs once and the seat of the
\* user is empty; a later timer of the user removes nothing.
C28_GraceExpires ==
  [][\A u \in Users :
       (/\ last'.op = "disconnected-timeout" /\ last'.user = u
        /\ last'.epoch = disconnects[u]
        /\ <<u, disconnects[u]>> \notin promoted
        /\ u \notin leaveSent)
       => /\ last'.result = "removed"
          /\ inDisconnected(u) /\ findIndex(disconnectedUsers', u) = 0
          /\ left[u] = 0 /\ left'[u] = 1
          /\ seatCleared(heap', u)]_vars

(***************************************************************************)
(* A game that is over.                                                    *)
(***************************************************************************)
\* the step ended the game of room h
gameWasEnded(h) == heap[h].gameInProgress /\ ~heap'[h].gameInProgress

\* room h holds a game that is over
gameOver(h) == heap[h].game # Nil /\ ~heap[h].gameInProgress

\* C30: endGame changes no field of a room but gameInProgress; a step that
\* ends the game of a room leaves its Game object (board, steps,
\* currentSide, cached winner) attached and unchanged; and while a room holds
\* a game that is not in progress no step changes that Game object, unless
\* the step resets the game (the game is gone, or a fresh one is in
\* progress).
C30_EndedGameReadOnly ==
  [][\A h \in DOMAIN heap :
       /\ \A f \in DOMAIN heap[h] \ {"gameInProgress"} :
            endGame(heap[h])[f] = heap[h][f]
       /\ ~endGame(heap[h]).gameInProgress
       /\ gameWasEnded(h) => heap'[h].game = heap[h].game /\ heap[h].game # Nil
       /\ gameOver(h) =>
            \/ heap'[h].game = heap[h].game /\ ~heap'[h].gameInProgress
            \/ heap'[h].game = Nil /\ ~heap'[h].gameInProgress
            \/ freshlyStarted(heap'[h])]_vars

\* a move was sent to a room whose game had been ended by a departure, and
\* the game is still attached
C30_Witness ==
  /\ last.op = "add-step" /\ sock[last.user] # NoSocket
  /\ \E h \in DOMAIN heap :
       /\ sock[last.user].room = h
       /\ heap[h].game # Nil /\ ~heap[h].gameInProgress
       /\ \E u \in Users : left[u] > 0 /\ u # last.user

decided(board) == BoardIsFull(board) \/ \E side \in Sides : hasRun(board, side)

\* C32: in every reachable state, a room whose gameInProgress flag is set
\* has a Game object, and the board of that game is neither won (no run of 5
\* of one colour) nor full.
C32_InProgressNotFinished ==
  \A h \in DOMAIN heap :
    heap[h].gameInProgress =>
      /\ heap[h].game # Nil
      /\ ~decided(heap[h].game[1].board)

\* a player has just sent a move to a room whose game is in progress
C32_Witness ==
  /\ last.op = "add-step" /\ sock[last.user] # NoSocket
  /\ sock[last.user].role # Spectator
  /\ heap[sock[last.user].room].gameInProgress
  /\ heap[sock[last.user].room].game # Nil

\* C33: in every reachable state, a room whose gameInProgress flag is set
\* has both player seats occupied.
C33_InProgressBothSeated ==
  \A h \in DOMAIN heap :
    heap[h].gameInProgress => heap[h].player1 # NoUser /\ heap[h].player2 # NoUser

\* C34: in every reachable state of a room, a restart vote that is set
\* belongs to an occupied seat of a room that has a Game object and whose
\* game is not in progress.
C34_VoteNeedsSeatAndEndedGame ==
  \A h \in DOMAIN heap :
    /\ heap[h].player1Restart =>
         heap[h].player1 # NoUser /\ heap[h].game # Nil /\ ~heap[h].gameInProgress
    /\ heap[h].player2Restart =>
         heap[h].player2 # NoUser /\ heap[h].game # Nil /\ ~heap[h].gameInProgress

(***************************************************************************)
(* Leaves.                                                                 *)
(***************************************************************************)
\* the step ran onUserLeave for user u: the 'leave-game' handler, or a timer
\* that found an entry of u
leaveProcessed(u) ==
  /\ last'.user = u
  /\ \/ last'.op = "leave-game"
     \/ isTimeout(last') /\ last'.result = "removed"

\* C35: a step that processes a leave of user u leaves every player seat
\* held by another user, in every room, with its holder; and no step empties
\* or hands over a player seat unless it processes a leave of the user who
\* holds it.
C35_LeaveVacatesOwnSeat ==
  [][\A h \in DOMAIN heap :
       /\ (heap[h].player1 # NoUser /\ heap'[h].player1 # heap[h].player1)
            => leaveProcessed(heap[h].player1)
       /\ (heap[h].player2 # NoUser /\ heap'[h].player2 # heap[h].player2)
            => leaveProcessed(heap[h].player2)]_vars

(***************************************************************************)
(* The registry and the seats.                                             *)
(***************************************************************************)
\* the seat of the role in the room holds the user
occupies(room, role, u) ==
  IF role = Player1 THEN room.player1 = u
  ELSE IF role = Player2 THEN room.player2 = u
  ELSE indexOf(room.spectators, u) # 0

\* the entry is backed by the room: its user holds the seat of its role in
\* its room, the room is in the directory and the user is not connected
backed(entry) ==
  /\ occupies(heap[entry.room], entry.role, entry.user)
  /\ listed(rooms, entry.room)
  /\ ~user[entry.user].isConnected

\* C36: in every reachable state, every entry of the pending and of the
\* disconnected collection names a user who holds the seat of the entry's
\* role in the entry's room, a room that is in the directory, and a user
\* whose isConnected flag is false; and every user who holds a seat and
\* whose isConnected flag is false has exactly one entry in the two
\* collections taken together.
C36_RegistryMatchesSeats ==
  /\ \A k \in DOMAIN pendingUsers : backed(pendingUsers[k])
  /\ \A k \in DOMAIN disconnectedUsers : backed(disconnectedUsers[k])
  /\ \A u \in Users :
       (holdsSeat(u) /\ ~user[u].isConnected)
         => entriesOf(pendingUsers, u) + entriesOf(disconnectedUsers, u) = 1

(***************************************************************************)
(* The start of a game.                                                    *)
(***************************************************************************)
\* the step started a game in room h (startGame ran)
gameWasStarted(h) == ~heap[h].gameInProgress /\ heap'[h].gameInProgress

\* the player seat holds a user whose transport is connected
connectedPlayer(users, seat) == seat # NoUser /\ users[seat].isConnected

\* C37: every step that starts a game in a room (the first game at a
\* connection, or a new game after the restart votes) ends in a state where
\* both player seats of the room are held by users whose isConnected flag is
\* true and who are neither in the pending nor in the disconnected
\* collection.
C37_StartNeedsConnectedPlayers ==
  [][\A h \in DOMAIN heap :
       gameWasStarted(h) =>
         /\ connectedPlayer(user', heap'[h].player1)
         /\ connectedPlayer(user', heap'[h].player2)
         /\ findIndex(pendingUsers', heap'[h].player1) = 0
         /\ findIndex(pendingUsers', heap'[h].player2) = 0
         /\ findIndex(disconnectedUsers', heap'[h].player1) = 0
         /\ findIndex(disconnectedUsers', heap'[h].player2) = 0]_vars

(***************************************************************************)
(* Leave processing per user.                                              *)
(***************************************************************************)
\* C38: over every run, onUserLeave runs at most once for a given user, and
\* user-left is broadcast at most once for that user: a step broadcasts it
\* at most once, and never for a user for whom an earlier step broadcast it.
C38_LeaveAtMostOnce ==
  [][\A u \in Users :
       /\ left'[u] <= 1
       /\ userLeftCount(emitted', u) <= 1
       /\ userLeftCount(emitted', u) = 1 => u \notin announced]_vars

====
